---- MODULE Spec2Model ----
(***************************************************************************)
(* Model of charmcraft's "pack" command (src/charmcraft/commands/pack.py): *)
(* PackCommand.run, PackCommand._pack_charm, PackCommand._pack_bundle and  *)
(* build_zip.                                                              *)
(*                                                                         *)
(* Python values are encoded as follows.                                   *)
(*   - an optional value (None or v) is a sequence of length 0 or 1;       *)
(*   - a path is the sequence of its components, an absolute path starts   *)
(*     with the component "/";                                             *)
(*   - a dict is a function from its keys;                                 *)
(*   - a return value is a record, PyNone or PyList(l);                    *)
(*   - an exception is a record [kind, msg].                               *)
(* The calls the command makes to its collaborators are recorded, in the   *)
(* order they are made, in the variable trace, which is reset when an      *)
(* invocation starts.                                                      *)
(***************************************************************************)
EXTENDS Integers, Sequences, FiniteSets, TLC

\* ------------------------------------------------------------------ bounds
\* number of successive invocations of PackCommand.run on one command object
MaxRuns == 2
\* number of regular files in a source tree handed to build_zip (SpecZip)
MaxTreeFiles == 3

\* --------------------------------------------------------- encoding helpers
NoneOpt == <<>>
Some(v) == <<v>>
IsNone(o) == o = <<>>
PyNone == [none |-> TRUE, list |-> <<>>]
PyList(l) == [none |-> FALSE, list |-> l]

Range(s) == {s[i] : i \in 1..Len(s)}
Count(s, e) == Cardinality({i \in 1..Len(s) : s[i] = e})
\* the index of the first occurrence of e in s, 0 when there is none
FirstIndex(s, e) == IF e \in Range(s) THEN CHOOSE i \in 1..Len(s) : s[i] = e /\ \A j \in 1..(i-1) : s[j] # e ELSE 0

\* repr() of an optional string: 'text' or None
Repr(o) == IF IsNone(o) THEN "None" ELSE "'" \o o[1] \o "'"

\* pathlib: p / name
Join(p, name) == Append(p, name)
IsPrefix(p, q) == Len(p) <= Len(q) /\ SubSeq(q, 1, Len(p)) = p
IsUnder(q, p) == Len(p) < Len(q) /\ IsPrefix(p, q)

RECURSIVE JoinStr(_)
JoinStr(s) == IF Len(s) = 0 THEN "" ELSE IF Len(s) = 1 THEN s[1] ELSE s[1] \o "/" \o JoinStr(Tail(s))
\* str(path)
StrPath(p) == IF Len(p) > 0 /\ p[1] = "/" THEN "/" \o JoinStr(Tail(p)) ELSE JoinStr(p)

\* dict.get(key) with a default
DictGet(d, k, default) == IF k \in DOMAIN d THEN d[k] ELSE default

\* ------------------------------------------------------ program constants
MANDATORY_FILES == <<"bundle.yaml", "README.md">>
BUILD_DIRNAME == "build"
ProjectDir == <<"/", "proj">>
ManagedHome == <<"/", "root">>
ManifestName == "manifest.yaml"

CommandError(msg) == [kind |-> "CommandError", msg |-> msg]

\* ------------------------------------------------------------------- state
VARIABLES
    config,        \* self.config: [type, config_provided, parts]
    managed,       \* env.is_charmcraft_running_in_managed_mode()
    files,         \* the filesystem: absolute path of a regular file -> content
    dirs,          \* directories that exist although they hold no file
    runs,          \* number of invocations started
    pc,            \* position of the current invocation
    parsed_args,   \* the Namespace given to run
    path,          \* branch taken by run: "none", "charm", "bundle", "unknown"
    parts_at_start,\* self.config.parts as it was when the invocation started
    files_at_start,\* the filesystem as it was when the invocation started
    config_parts,  \* local of _pack_bundle
    special,       \* local of _pack_bundle: special_bundle_part is not None
    bundle_name,   \* local of _pack_bundle (optional)
    lifecycle,     \* the PartsLifecycle built by _pack_bundle (optional)
    zipname,       \* local of _pack_bundle (optional)
    charms,        \* local of _pack_charm: what builder.run returned (optional)
    trace,         \* collaborator calls of the current invocation, in order
    error,         \* exception that left run (optional)
    raised_by,     \* the step that raised it: "none", "usage", "validation", ...
    pack_result,   \* value returned by _pack_charm / _pack_bundle (optional)
    result,        \* value returned by run (optional)
    zin,           \* SpecZip: [zippath, prime_dir] given to build_zip
    zout           \* SpecZip: "todo", "done"

vars == <<config, managed, files, dirs, runs, pc, parsed_args, path, parts_at_start, files_at_start, config_parts, special, bundle_name, lifecycle, zipname, charms, trace, error, raised_by, pack_result, result, zin, zout>>

invocation == <<pc, parsed_args, path, parts_at_start, files_at_start, config_parts, special, bundle_name, lifecycle, zipname, charms, trace, error, raised_by, pack_result, result>>

\* -------------------------------------------------------------- filesystem
TextFile == [kind |-> "text"]
YamlFile(valid, data) == [kind |-> "yaml", valid |-> valid, data |-> data]
ManifestFile == [kind |-> "manifest"]
\* a file that parses as YAML, but as a list and not as a mapping
YamlList == [kind |-> "yaml_list"]
\* an archive: the names of its entries in the order written, and whether
\* the ZipFile was closed (the central directory written)
ZipArchive(entries, closed) == [kind |-> "zip", entries |-> entries, closed |-> closed]

Exists(fsFiles, fsDirs, p) == p \in DOMAIN fsFiles \/ p \in fsDirs \/ \E f \in DOMAIN fsFiles : IsUnder(f, p)
\* the file map without everything under directory d
RemoveTree(fsFiles, d) == [f \in {g \in DOMAIN fsFiles : ~IsUnder(g, d)} |-> fsFiles[f]]

RECURSIVE SetToSeq(_)
SetToSeq(S) == IF S = {} THEN <<>> ELSE LET x == CHOOSE y \in S : TRUE IN <<x>> \o SetToSeq(S \ {x})

\* os.walk: the names of the non-directory entries of directory d
Filenames(fsFiles, d) == {f[Len(f)] : f \in {g \in DOMAIN fsFiles : Len(g) = Len(d) + 1 /\ IsPrefix(d, g)}}
\* os.walk: the names of the sub-directories of directory d
Dirnames(fsFiles, fsDirs, d) == {q[Len(d) + 1] : q \in {g \in DOMAIN fsFiles : Len(g) > Len(d) + 1 /\ IsPrefix(d, g)} \cup {g \in fsDirs : IsUnder(g, d)}}

\* pathlib: filepath.relative_to(base); a ValueError when base is no prefix
RelativeToWrong(filepath, base) == filepath
RelativeTo(filepath, base) == SubSeq(filepath, Len(base) + 1, Len(filepath))

\* build_zip, the loop: the (filepath, arcname) pairs written, in the order of
\* a top-down os.walk; the order among siblings is the filesystem's, here a
\* fixed one
RECURSIVE Walk(_, _, _, _)
Walk(fsFiles, fsDirs, top, todo) ==
    IF todo = <<>> THEN <<>>
    ELSE LET dirpath == Head(todo)
             here == [i \in 1..Cardinality(Filenames(fsFiles, dirpath)) |->
                        LET filepath == Join(dirpath, SetToSeq(Filenames(fsFiles, dirpath))[i])
                        IN [filepath |-> filepath, arcname |-> StrPath(RelativeTo(filepath, top))]]
             subdirs == [i \in 1..Cardinality(Dirnames(fsFiles, fsDirs, dirpath)) |->
                        Join(dirpath, SetToSeq(Dirnames(fsFiles, fsDirs, dirpath))[i])]
         IN here \o Walk(fsFiles, fsDirs, top, subdirs \o Tail(todo))

\* build_zip, line 40: ZipFile(zippath, "w") creates or truncates the file
ZipOpen(fsFiles, zippath) == (zippath :> ZipArchive(<<>>, FALSE)) @@ fsFiles

\* build_zip, lines 41-45: the entry names written to the archive
ZipEntries(fsFiles, fsDirs, zippath, prime_dir) ==
    LET opened == ZipOpen(fsFiles, zippath)
        written == IF Exists(opened, fsDirs, prime_dir) THEN Walk(opened, fsDirs, prime_dir, <<prime_dir>>) ELSE <<>>
    IN [i \in 1..Len(written) |-> written[i].arcname]

\* build_zip stopped by an error after k entries were written: the file is
\* left as it is, the ZipFile is not closed
build_zip_failed(fsFiles, fsDirs, zippath, prime_dir, k) ==
    (zippath :> ZipArchive(SubSeq(ZipEntries(fsFiles, fsDirs, zippath, prime_dir), 1, k), FALSE)) @@ fsFiles

\* build_zip stopped by an error after k entries were written, and the ZipFile
\* object finalized afterwards: ZipFile.__del__ closes it, which writes the
\* central directory of the entries written so far
build_zip_failed_finalized(fsFiles, fsDirs, zippath, prime_dir, k) ==
    (zippath :> ZipArchive(SubSeq(ZipEntries(fsFiles, fsDirs, zippath, prime_dir), 1, k), TRUE)) @@ fsFiles

\* build_zip run to its end
build_zip(fsFiles, fsDirs, zippath, prime_dir) ==
    (zippath :> ZipArchive(ZipEntries(fsFiles, fsDirs, zippath, prime_dir), TRUE)) @@ fsFiles

\* -------------------------------------------- SpecZip: build_zip on its own
TreePaths == {<<"c.txt">>, <<"a", "b.txt">>, <<"a", "c.txt">>, <<"a", "d", "e.txt">>, <<"bundle.yaml">>}
TreeEmptyDirs == {<<"empty">>, <<"a", "void">>}
PrimeDirs == {ProjectDir \o <<BUILD_DIRNAME, "prime">>, ManagedHome \o <<"prime">>}
OutsideFiles == {Join(ProjectDir, "bundle.yaml"), Join(ProjectDir, "README.md"), ManagedHome \o <<"x", "c.txt">>}

NoInvocation ==
    /\ pc = "idle"
    /\ parsed_args = [debug |-> FALSE, entrypoint |-> NoneOpt, requirement |-> NoneOpt, shell |-> FALSE, shell_after |-> FALSE]
    /\ path = "none"
    /\ parts_at_start = <<>>
    /\ files_at_start = <<>>
    /\ config_parts = <<>>
    /\ special = FALSE
    /\ bundle_name = NoneOpt
    /\ lifecycle = NoneOpt
    /\ zipname = NoneOpt
    /\ charms = NoneOpt
    /\ trace = <<>>
    /\ error = NoneOpt
    /\ raised_by = "none"
    /\ pack_result = NoneOpt
    /\ result = NoneOpt

InitZip ==
    /\ config = [type |-> NoneOpt, config_provided |-> FALSE, parts |-> <<>>]
    /\ managed = FALSE
    /\ runs = 0
    /\ NoInvocation
    /\ \E prime_dir \in PrimeDirs, tree \in SUBSET TreePaths, empty \in SUBSET TreeEmptyDirs, outside \in SUBSET OutsideFiles, old \in BOOLEAN :
        /\ Cardinality(tree) <= MaxTreeFiles
        /\ zin = [zippath |-> Join(ProjectDir, "mybundle.zip"), prime_dir |-> prime_dir]
        /\ dirs = {prime_dir} \cup {prime_dir \o d : d \in empty}
        /\ files = [f \in {prime_dir \o t : t \in tree} \cup outside \cup (IF old THEN {Join(ProjectDir, "mybundle.zip")} ELSE {}) |->
                      IF f = Join(ProjectDir, "mybundle.zip") THEN ZipArchive(<<"old.txt">>, TRUE) ELSE TextFile]
    /\ zout = "todo"

\* build_zip(zippath, prime_dir), lines 38-47
ZipBuild ==
    /\ zout = "todo"
    /\ files' = build_zip(files, dirs, zin.zippath, zin.prime_dir)
    /\ zout' = "done"
    /\ UNCHANGED <<config, managed, dirs, runs, invocation, zin>>

NextZip == ZipBuild

SpecZip == InitZip /\ [][NextZip]_vars

\* the regular files of the tree rooted at d, as paths relative to d
TreeOf(fsFiles, d) == {SubSeq(f, Len(d) + 1, Len(f)) : f \in {g \in DOMAIN fsFiles : IsUnder(g, d)}}

\* C10: build_zip followed by listing the archive yields exactly the paths,
\* relative to the source directory, of the regular files of the tree: one
\* entry per file, no absolute path, no project-root prefix, no entry for a
\* directory, no file left out.
C10_ZipRoundTrip ==
    zout = "done" =>
        LET archive == files[zin.zippath]
            tree == TreeOf(files, zin.prime_dir)
        IN /\ archive.kind = "zip" /\ archive.closed
           /\ Range(archive.entries) = {StrPath(t) : t \in tree}
           /\ Len(archive.entries) = Cardinality(tree)
           /\ \A f \in DOMAIN files : StrPath(f) \notin Range(archive.entries)
           /\ \A f \in DOMAIN files : StrPath(Tail(f)) \notin Range(archive.entries)
           /\ \A d \in dirs : StrPath(RelativeTo(d, zin.prime_dir)) \notin Range(archive.entries)

\* a tree with a nested file, a top-level file and an empty directory was archived
C10_Witness ==
    /\ zout = "done"
    /\ {<<"a", "b.txt">>, <<"c.txt">>} \subseteq TreeOf(files, zin.prime_dir)
    /\ Join(zin.prime_dir, "empty") \in dirs
    /\ {"a/b.txt", "c.txt"} \subseteq Range(files[zin.zippath].entries)

\* ------------------------------------------------- Spec: the pack command
TypeValues == {NoneOpt, Some("charm"), Some("bundle"), Some("other")}

\* the "parts" mappings a charmcraft.yaml may declare
DeclaredParts == {
    <<>>,
    "bundle" :> [plugin |-> "bundle"],
    "bundle" :> [plugin |-> "bundle", prime |-> <<"extra.txt">>, source |-> "src"],
    "bundle" :> [plugin |-> "bundle", source |-> ""],
    "bundle" :> [plugin |-> "nil"],
    "other" :> [plugin |-> "bundle"],
    ("bundle" :> [plugin |-> "bundle", prime |-> <<>>]) @@ ("other" :> [plugin |-> "nil", prime |-> <<"y">>]) }

\* what <project>/bundle.yaml may be: absent (no element), unparsable, a
\* list, a mapping without name, with an empty name, with a name
BundleYamlContents == {YamlFile(FALSE, <<>>), YamlList, YamlFile(TRUE, <<>>), YamlFile(TRUE, [name |-> ""]), YamlFile(TRUE, [name |-> "mybundle"])}

ArgsSet == [debug : BOOLEAN, entrypoint : {NoneOpt, Some("src/charm.py")}, requirement : {NoneOpt, Some(<<"reqs.txt">>)}, shell : BOOLEAN, shell_after : BOOLEAN]

\* exception kinds a lifecycle run may end with
LifecycleErrorKinds == {"RuntimeError", "CommandError", "KeyboardInterrupt"}

Init ==
    /\ config \in [type : TypeValues, config_provided : BOOLEAN, parts : DeclaredParts]
    /\ managed \in BOOLEAN
    /\ \E yaml \in SUBSET BundleYamlContents, readme \in BOOLEAN :
        /\ Cardinality(yaml) <= 1
        /\ files = [f \in {Join(ProjectDir, "bundle.yaml") : y \in yaml} \cup (IF readme THEN {Join(ProjectDir, "README.md")} ELSE {}) |->
                      IF f = Join(ProjectDir, "bundle.yaml") THEN CHOOSE y \in yaml : TRUE ELSE TextFile]
    /\ dirs = {ProjectDir}
    /\ runs = 0
    /\ NoInvocation
    /\ zin = [zippath |-> <<>>, prime_dir |-> <<>>]
    /\ zout = "unused"

\* an exception leaves run
Raise(err, by) ==
    /\ error' = Some(err)
    /\ raised_by' = by
    /\ pc' = "done"

\* bool(dict)
Truthy(d) == DOMAIN d # {}

\* PackCommand.run, lines 138-149: which branch is taken
run_branch_and(cfg) ==
    IF cfg.type = Some("charm") /\ ~cfg.config_provided THEN "charm"
    ELSE IF cfg.type = Some("bundle") THEN "bundle"
    ELSE "unknown"
run_branch(cfg) ==
    IF cfg.type = Some("charm") \/ ~cfg.config_provided THEN "charm"
    ELSE IF cfg.type = Some("bundle") THEN "bundle"
    ELSE "unknown"

\* PackCommand.run, lines 141-146: charm-only options given for a bundle
charm_only_error_none(args) == NoneOpt
charm_only_error(args) ==
    IF ~IsNone(args.entrypoint) THEN Some(CommandError("The -e/--entry option is valid only when packing a charm"))
    ELSE IF ~IsNone(args.requirement) THEN Some(CommandError("The -r/--requirement option is valid only when packing a charm"))
    ELSE NoneOpt

\* PackCommand.run, lines 135-149, up to the call of _pack_charm / _pack_bundle
Run ==
    /\ pc \in {"idle", "done"}
    /\ runs < MaxRuns
    /\ runs' = runs + 1
    /\ \E args \in ArgsSet : parsed_args' = args
    /\ path' = run_branch(config)
    /\ parts_at_start' = config.parts
    /\ files_at_start' = files
    /\ config_parts' = <<>>
    /\ special' = FALSE
    /\ bundle_name' = NoneOpt
    /\ lifecycle' = NoneOpt
    /\ zipname' = NoneOpt
    /\ charms' = NoneOpt
    /\ trace' = <<>>
    /\ pack_result' = NoneOpt
    /\ result' = NoneOpt
    /\ IF path' = "charm" THEN
            pc' = "pack_charm" /\ error' = NoneOpt /\ raised_by' = "none"
       ELSE IF path' = "bundle" THEN
            IF ~IsNone(charm_only_error(parsed_args')) THEN Raise(charm_only_error(parsed_args')[1], "usage")
            ELSE pc' = "pack_bundle" /\ error' = NoneOpt /\ raised_by' = "none"
       ELSE Raise(CommandError("Unknown type " \o Repr(config.type) \o " in charmcraft.yaml"), "unknown_type")
    /\ UNCHANGED <<config, managed, files, dirs, zin, zout>>

\* build.Builder.run: the charms it may return
BuilderCharms == {<<Join(ProjectDir, "a_ubuntu-20.04.charm")>>, <<Join(ProjectDir, "a_ubuntu-20.04.charm"), Join(ProjectDir, "a_ubuntu-22.04.charm")>>}

\* PackCommand._pack_charm, lines 151-177, and the return from run (line 139)
PackCharm ==
    /\ pc = "pack_charm"
    /\ \/ /\ trace' = trace \o <<"Validator.process">>
          /\ Raise(CommandError("validation failed"), "validator")
          /\ UNCHANGED <<charms, pack_result, result>>
       \/ /\ ~parsed_args.shell
          /\ trace' = trace \o <<"Validator.process", "Builder.run">>
          /\ Raise(CommandError("build failed"), "builder")
          /\ UNCHANGED <<charms, pack_result, result>>
       \/ /\ IF parsed_args.shell
             THEN trace' = trace \o <<"Validator.process", "Builder.run", "launch_shell">> /\ charms' = Some(<<>>)
             ELSE trace' = trace \o <<"Validator.process", "Builder.run">> /\ \E built \in BuilderCharms : charms' = Some(built)
          /\ pack_result' = Some(PyNone)
          /\ result' = Some(PyNone)
          /\ pc' = "done"
          /\ UNCHANGED <<error, raised_by>>
    /\ UNCHANGED <<config, managed, files, dirs, runs, parsed_args, path, parts_at_start, files_at_start, config_parts, special, bundle_name, lifecycle, zipname, zin, zout>>

\* PackCommand._pack_bundle, lines 181-260: the order of its steps
step_after_late_check(step) ==
    CASE step = "pack_bundle" -> "load_bundle"
      [] step = "load_bundle" -> "lifecycle"
      [] step = "lifecycle" -> "check_mandatory"
      [] step = "check_mandatory" -> "manifest"
      [] step = "manifest" -> "build_zip"
      [] step = "build_zip" -> "finish"
      [] step = "finish" -> "done"
step_after_check_first(step) ==
    CASE step = "pack_bundle" -> "check_mandatory"
      [] step = "check_mandatory" -> "load_bundle"
      [] step = "load_bundle" -> "lifecycle"
      [] step = "lifecycle" -> "manifest"
      [] step = "manifest" -> "build_zip"
      [] step = "build_zip" -> "finish"
      [] step = "finish" -> "done"
step_after_zip_first(step) ==
    CASE step = "pack_bundle" -> "load_bundle"
      [] step = "load_bundle" -> "check_mandatory"
      [] step = "check_mandatory" -> "lifecycle"
      [] step = "lifecycle" -> "build_zip"
      [] step = "build_zip" -> "manifest"
      [] step = "manifest" -> "finish"
      [] step = "finish" -> "done"
step_after(step) ==
    CASE step = "pack_bundle" -> "load_bundle"
      [] step = "load_bundle" -> "check_mandatory"
      [] step = "check_mandatory" -> "lifecycle"
      [] step = "lifecycle" -> "manifest"
      [] step = "manifest" -> "build_zip"
      [] step = "build_zip" -> "finish"
      [] step = "finish" -> "done"

\* PackCommand._pack_bundle, lines 196-200: is there a special bundle part
is_special_by_name(cparts) == "bundle" \in DOMAIN cparts /\ Truthy(cparts["bundle"])
is_special(cparts) == "bundle" \in DOMAIN cparts /\ Truthy(cparts["bundle"]) /\ DictGet(cparts["bundle"], "plugin", "") = "bundle"

\* PackCommand._pack_bundle, lines 188-192: the local parts mapping
initial_parts(declared) == IF Truthy(declared) THEN declared ELSE "bundle" :> [plugin |-> "bundle"]

\* PackCommand._pack_bundle, lines 181-200
PackBundle_no_return ==
    /\ pc = "pack_bundle"
    /\ trace' = IF parsed_args.shell THEN Append(trace, "launch_shell") ELSE trace
    /\ config_parts' = initial_parts(config.parts)
    /\ special' = is_special(config_parts')
    /\ pc' = step_after("pack_bundle")
    /\ UNCHANGED <<pack_result, result>>
    /\ UNCHANGED <<config, managed, files, dirs, runs, parsed_args, path, parts_at_start, files_at_start, bundle_name, lifecycle, zipname, charms, error, raised_by, zin, zout>>
PackBundle ==
    /\ pc = "pack_bundle"
    /\ IF parsed_args.shell THEN
            /\ trace' = Append(trace, "launch_shell")
            /\ pack_result' = Some(PyList(<<>>))
            /\ result' = Some(PyNone)
            /\ pc' = "done"
            /\ UNCHANGED <<config_parts, special>>
       ELSE /\ config_parts' = initial_parts(config.parts)
            /\ special' = is_special(config_parts')
            /\ pc' = step_after("pack_bundle")
            /\ UNCHANGED <<trace, pack_result, result>>
    /\ UNCHANGED <<config, managed, files, dirs, runs, parsed_args, path, parts_at_start, files_at_start, bundle_name, lifecycle, zipname, charms, error, raised_by, zin, zout>>

\* utils.load_yaml: the parsed content, None when the file is absent or not valid
load_yaml(fsFiles, fpath) ==
    IF fpath \in DOMAIN fsFiles /\ fsFiles[fpath].kind = "yaml" /\ fsFiles[fpath].valid THEN Some(fsFiles[fpath].data) ELSE NoneOpt

\* PackCommand._pack_bundle, lines 203-214
LoadBundle ==
    /\ pc = "load_bundle"
    /\ trace' = Append(trace, "load_yaml")
    /\ LET bundle_filepath == Join(ProjectDir, "bundle.yaml")
           bundle_config == load_yaml(files, bundle_filepath)
       IN IF IsNone(bundle_config) THEN
               /\ Raise(CommandError("Missing or invalid main bundle file: " \o Repr(Some(StrPath(bundle_filepath))) \o "."), "validation")
               /\ UNCHANGED bundle_name
          ELSE IF DictGet(bundle_config[1], "name", "") = "" THEN
               /\ Raise(CommandError("Invalid bundle config; missing a 'name' field indicating the bundle's name in file " \o Repr(Some(StrPath(bundle_filepath))) \o "."), "validation")
               /\ UNCHANGED bundle_name
          ELSE /\ bundle_name' = Some(bundle_config[1]["name"])
               /\ pc' = step_after("load_bundle")
               /\ UNCHANGED <<error, raised_by>>
    /\ UNCHANGED <<config, managed, files, dirs, runs, parsed_args, path, parts_at_start, files_at_start, config_parts, special, lifecycle, zipname, charms, pack_result, result, zin, zout>>

\* PackCommand._pack_bundle, lines 218-221: the mandatory files looked for, up
\* to and including the first missing one
mandatory_checked_first_only(fsFiles, fsDirs, names) == <<Head(names)>>
RECURSIVE mandatory_checked(_, _, _)
mandatory_checked(fsFiles, fsDirs, names) ==
    IF names = <<>> THEN <<>>
    ELSE IF ~Exists(fsFiles, fsDirs, Join(ProjectDir, Head(names))) THEN <<Head(names)>>
    ELSE <<Head(names)>> \o mandatory_checked(fsFiles, fsDirs, Tail(names))

\* PackCommand._pack_bundle, lines 222-227: the special part with its defaults
special_part_defaults_no_source(part) ==
    [k \in DOMAIN part \cup {"prime"} |-> IF k = "prime" THEN DictGet(part, "prime", <<>>) \o MANDATORY_FILES ELSE part[k]]
special_part_defaults_prepend(part) ==
    LET withPrime == [k \in DOMAIN part \cup {"prime"} |-> IF k = "prime" THEN MANDATORY_FILES \o DictGet(part, "prime", <<>>) ELSE part[k]]
    IN IF DictGet(withPrime, "source", "") = ""
       THEN [k \in DOMAIN withPrime \cup {"source"} |-> IF k = "source" THEN StrPath(ProjectDir) ELSE withPrime[k]]
       ELSE withPrime
special_part_defaults(part) ==
    LET withPrime == [k \in DOMAIN part \cup {"prime"} |-> IF k = "prime" THEN DictGet(part, "prime", <<>>) \o MANDATORY_FILES ELSE part[k]]
    IN IF DictGet(withPrime, "source", "") = ""
       THEN [k \in DOMAIN withPrime \cup {"source"} |-> IF k = "source" THEN StrPath(ProjectDir) ELSE withPrime[k]]
       ELSE withPrime

\* PackCommand._pack_bundle, lines 216-227. The local mapping is a shallow
\* copy (line 189): the part it holds is the very dict of self.config.parts,
\* so the defaults show in self.config.parts too, unless the part is the
\* implicit one of line 192.
CheckMandatory ==
    /\ pc = "check_mandatory"
    /\ IF special THEN
            LET checked == mandatory_checked(files, dirs, MANDATORY_FILES)
                last == Join(ProjectDir, checked[Len(checked)])
            IN /\ trace' = trace \o [i \in 1..Len(checked) |-> "exists:" \o checked[i]]
               /\ IF ~Exists(files, dirs, last) THEN
                       /\ Raise(CommandError("Missing mandatory file: " \o Repr(Some(StrPath(last))) \o "."), "validation")
                       /\ UNCHANGED <<config, config_parts>>
                  ELSE /\ config_parts' = [config_parts EXCEPT !["bundle"] = special_part_defaults(@)]
                       /\ config' = IF Truthy(config.parts) THEN [config EXCEPT !.parts = config_parts'] ELSE config
                       /\ pc' = step_after("check_mandatory")
                       /\ UNCHANGED <<error, raised_by>>
       ELSE /\ pc' = step_after("check_mandatory")
            /\ UNCHANGED <<config, config_parts, trace, error, raised_by>>
    /\ UNCHANGED <<managed, files, dirs, runs, parsed_args, path, parts_at_start, files_at_start, special, bundle_name, lifecycle, zipname, charms, pack_result, result, zin, zout>>

\* PackCommand._pack_bundle, lines 229-232
work_dir_of(isManaged) == IF isManaged THEN ManagedHome ELSE Join(ProjectDir, BUILD_DIRNAME)

\* PackCommand._pack_bundle, line 240
ignore_local_sources_bare(name) == <<name>>
ignore_local_sources(name) == <<name \o ".zip">>

\* parts.PartsLifecycle: the files of the project it takes as local sources,
\* relative to the project; the work directory and the ignored names are left out
LocalSources(fsFiles, project_dir, work_dir, ignore) ==
    {RelativeTo(f, project_dir) : f \in {g \in DOMAIN fsFiles : IsUnder(g, project_dir) /\ ~IsPrefix(work_dir, g) /\ g[Len(project_dir) + 1] \notin Range(ignore)}}

\* parts.PartsLifecycle.run(Step.PRIME): the prime directory holds the primed files
Primed(fsFiles, project_dir, prime_dir, primed) ==
    [f \in {prime_dir \o r : r \in primed} |-> fsFiles[project_dir \o RelativeTo(f, prime_dir)]] @@ RemoveTree(fsFiles, prime_dir)

\* PackCommand._pack_bundle, lines 242-248: the except clause
caught_runtime_only(kind) == kind = "RuntimeError"
caught(kind) == kind \in {"RuntimeError", "CommandError"}

\* PackCommand._pack_bundle, lines 229-248
RunLifecycle_no_reraise ==
    /\ pc = "lifecycle"
    /\ LET work_dir == work_dir_of(managed)
           made == [parts |-> config_parts, work_dir |-> work_dir, project_dir |-> ProjectDir,
                    ignore_local_sources |-> ignore_local_sources(bundle_name[1]),
                    prime_dir |-> Join(work_dir, "prime"),
                    sources |-> LocalSources(files, ProjectDir, work_dir, ignore_local_sources(bundle_name[1]))]
       IN /\ lifecycle' = Some(made)
          /\ \/ /\ trace' = Append(trace, "PartsLifecycle")
                /\ Raise(CommandError("Error bootstrapping lifecycle manager"), "lifecycle_ctor")
                /\ UNCHANGED files
             \/ \E kind \in LifecycleErrorKinds :
                /\ trace' = trace \o <<"PartsLifecycle", "lifecycle.run">> \o (IF caught(kind) /\ parsed_args.debug THEN <<"launch_shell">> ELSE <<>>)
                /\ IF caught(kind)
                   THEN error' = NoneOpt /\ raised_by' = "lifecycle_run" /\ pc' = step_after("lifecycle")
                   ELSE Raise([kind |-> kind, msg |-> "Parts processing error"], "lifecycle_run")
                /\ UNCHANGED files
             \/ \E primed \in SUBSET made.sources :
                /\ trace' = trace \o <<"PartsLifecycle", "lifecycle.run">>
                /\ files' = Primed(files, ProjectDir, made.prime_dir, primed)
                /\ pc' = step_after("lifecycle")
                /\ UNCHANGED <<error, raised_by>>
    /\ UNCHANGED <<config, managed, dirs, runs, parsed_args, path, parts_at_start, files_at_start, config_parts, special, bundle_name, zipname, charms, pack_result, result, zin, zout>>
RunLifecycle ==
    /\ pc = "lifecycle"
    /\ LET work_dir == work_dir_of(managed)
           made == [parts |-> config_parts, work_dir |-> work_dir, project_dir |-> ProjectDir,
                    ignore_local_sources |-> ignore_local_sources(bundle_name[1]),
                    prime_dir |-> Join(work_dir, "prime"),
                    sources |-> LocalSources(files, ProjectDir, work_dir, ignore_local_sources(bundle_name[1]))]
       IN /\ lifecycle' = Some(made)
          /\ \/ /\ trace' = Append(trace, "PartsLifecycle")
                /\ Raise(CommandError("Error bootstrapping lifecycle manager"), "lifecycle_ctor")
                /\ UNCHANGED files
             \/ \E kind \in LifecycleErrorKinds :
                /\ trace' = trace \o <<"PartsLifecycle", "lifecycle.run">> \o (IF caught(kind) /\ parsed_args.debug THEN <<"launch_shell">> ELSE <<>>)
                /\ Raise([kind |-> kind, msg |-> "Parts processing error"], "lifecycle_run")
                /\ UNCHANGED files
             \/ \E primed \in SUBSET made.sources :
                /\ trace' = trace \o <<"PartsLifecycle", "lifecycle.run">>
                /\ files' = Primed(files, ProjectDir, made.prime_dir, primed)
                /\ pc' = step_after("lifecycle")
                /\ UNCHANGED <<error, raised_by>>
    /\ UNCHANGED <<config, managed, dirs, runs, parsed_args, path, parts_at_start, files_at_start, config_parts, special, bundle_name, zipname, charms, pack_result, result, zin, zout>>

\* PackCommand._pack_bundle, line 251
CreateManifest ==
    /\ pc = "manifest"
    /\ trace' = Append(trace, "create_manifest")
    /\ \/ /\ Raise([kind |-> "OSError", msg |-> "cannot write the manifest"], "manifest")
          /\ UNCHANGED files
       \/ /\ files' = (Join(lifecycle[1].prime_dir, ManifestName) :> ManifestFile) @@ files
          /\ pc' = step_after("manifest")
          /\ UNCHANGED <<error, raised_by>>
    /\ UNCHANGED <<config, managed, dirs, runs, parsed_args, path, parts_at_start, files_at_start, config_parts, special, bundle_name, lifecycle, zipname, charms, pack_result, result, zin, zout>>

\* PackCommand._pack_bundle, line 252
zipname_fixed(name) == Join(ProjectDir, "bundle.zip")
zipname_of(name) == Join(ProjectDir, name \o ".zip")

\* PackCommand._pack_bundle, lines 252-253
BuildZip ==
    /\ pc = "build_zip"
    /\ zipname' = Some(zipname_of(bundle_name[1]))
    /\ trace' = Append(trace, "build_zip")
    /\ \/ /\ Raise([kind |-> "OSError", msg |-> "cannot open the archive"], "archive")
          /\ UNCHANGED files
       \/ \E k \in 0..Len(ZipEntries(files, dirs, zipname'[1], lifecycle[1].prime_dir)) :
          /\ Raise([kind |-> "OSError", msg |-> "cannot write the archive"], "archive")
          /\ \/ files' = build_zip_failed(files, dirs, zipname'[1], lifecycle[1].prime_dir, k)
             \/ /\ k < Len(ZipEntries(files, dirs, zipname'[1], lifecycle[1].prime_dir))
                /\ files' = build_zip_failed_finalized(files, dirs, zipname'[1], lifecycle[1].prime_dir, k)
       \/ /\ files' = build_zip(files, dirs, zipname'[1], lifecycle[1].prime_dir)
          /\ pc' = step_after("build_zip")
          /\ UNCHANGED <<error, raised_by>>
    /\ UNCHANGED <<config, managed, dirs, runs, parsed_args, path, parts_at_start, files_at_start, config_parts, special, bundle_name, lifecycle, charms, pack_result, result, zin, zout>>

\* PackCommand._pack_bundle, lines 255-260, and the return from run (line 147)
Finish_always_shell ==
    /\ pc = "finish"
    /\ trace' = trace \o <<"emit.message:Created">> \o <<"launch_shell">>
    /\ pack_result' = Some(PyList(<<zipname[1]>>))
    /\ result' = Some(PyNone)
    /\ pc' = step_after("finish")
    /\ UNCHANGED <<config, managed, files, dirs, runs, parsed_args, path, parts_at_start, files_at_start, config_parts, special, bundle_name, lifecycle, zipname, charms, error, raised_by, zin, zout>>
Finish ==
    /\ pc = "finish"
    /\ trace' = trace \o <<"emit.message:Created">> \o (IF parsed_args.shell_after THEN <<"launch_shell">> ELSE <<>>)
    /\ pack_result' = Some(PyList(<<zipname[1]>>))
    /\ result' = Some(PyNone)
    /\ pc' = step_after("finish")
    /\ UNCHANGED <<config, managed, files, dirs, runs, parsed_args, path, parts_at_start, files_at_start, config_parts, special, bundle_name, lifecycle, zipname, charms, error, raised_by, zin, zout>>

Next ==
    \/ Run
    \/ PackCharm
    \/ PackBundle
    \/ LoadBundle
    \/ CheckMandatory
    \/ RunLifecycle
    \/ CreateManifest
    \/ BuildZip
    \/ Finish

Spec == Init /\ [][Next]_vars

\* ------------------------------------------------------------------ claims
Called(op) == op \in Range(trace)
CharmPathStarted == pc = "pack_charm" \/ Called("Validator.process") \/ Called("Builder.run")
BundlePathStarted == pc \in {"pack_bundle", "load_bundle", "check_mandatory", "lifecycle", "manifest", "build_zip", "finish"} \/ (~IsNone(pack_result) /\ path = "bundle") \/ Called("load_yaml")
CharmOnlyGiven == ~IsNone(parsed_args.entrypoint) \/ ~IsNone(parsed_args.requirement)
FilesystemSteps == {"load_yaml", "exists:bundle.yaml", "exists:README.md", "PartsLifecycle", "lifecycle.run", "create_manifest", "build_zip"}

\* C1: run takes the charm path iff the declared type is "charm" or no
\* configuration was provided; otherwise the bundle path iff the declared type
\* is "bundle"; for every other declared value it fails with the unknown-type
\* error carrying the value, and neither path is started.
C1_TypeDispatch ==
    runs > 0 =>
        /\ (path = "charm") <=> (config.type = <<"charm">> \/ ~config.config_provided)
        /\ (path = "bundle") <=> (~(config.type = <<"charm">> \/ ~config.config_provided) /\ config.type = <<"bundle">>)
        /\ CharmPathStarted => path = "charm"
        /\ BundlePathStarted => path = "bundle"
        /\ path = "charm" => CharmPathStarted /\ raised_by \in {"none", "validator", "builder"}
        /\ path = "bundle" => BundlePathStarted \/ raised_by = "usage"
        /\ path \notin {"charm", "bundle"} =>
            /\ pc = "done" /\ trace = <<>> /\ IsNone(result) /\ IsNone(pack_result)
            /\ ~IsNone(error) /\ error[1].kind = "CommandError"
            /\ config.type = <<>> => error[1].msg = "Unknown type None in charmcraft.yaml"
            /\ config.type = <<"other">> => error[1].msg = "Unknown type 'other' in charmcraft.yaml"

\* an invocation with an unknown declared type ended with the error
C1_Witness ==
    /\ runs > 0 /\ pc = "done" /\ config.config_provided /\ config.type = <<"other">>
    /\ ~IsNone(error) /\ raised_by = "unknown_type"

\* C2: on the bundle path, an entrypoint or a requirement list makes the
\* invocation fail with a usage error before any filesystem step: nothing is
\* read or checked, no shell is launched, no lifecycle is run, nothing is written.
C2_CharmOnlyOptionsRejected ==
    (runs > 0 /\ path = "bundle" /\ CharmOnlyGiven) =>
        /\ pc = "done"
        /\ ~IsNone(error) /\ error[1].kind = "CommandError" /\ raised_by = "usage"
        /\ ~IsNone(parsed_args.entrypoint) => error[1].msg = "The -e/--entry option is valid only when packing a charm"
        /\ IsNone(parsed_args.entrypoint) => error[1].msg = "The -r/--requirement option is valid only when packing a charm"
        /\ trace = <<>>
        /\ files = files_at_start
        /\ IsNone(lifecycle) /\ IsNone(zipname) /\ IsNone(pack_result) /\ IsNone(result)

\* a bundle invocation with --shell and a requirement list ended with the usage error
C2_Witness ==
    /\ runs > 0 /\ path = "bundle" /\ parsed_args.shell /\ ~IsNone(parsed_args.requirement) /\ IsNone(parsed_args.entrypoint)
    /\ pc = "done" /\ raised_by = "usage"

\* C3: a validation error of a bundle invocation is raised before the
\* lifecycle is started, and nothing of that invocation follows it: no
\* lifecycle run, no manifest write, no archive write, so the filesystem is
\* as the invocation found it.
C3_ValidationBeforeLifecycle ==
    raised_by = "validation" =>
        /\ pc = "done" /\ path = "bundle"
        /\ ~Called("PartsLifecycle") /\ ~Called("lifecycle.run") /\ ~Called("create_manifest") /\ ~Called("build_zip")
        /\ IsNone(lifecycle) /\ IsNone(zipname)
        /\ files = files_at_start
        /\ IsNone(pack_result) /\ IsNone(result)

\* README.md was missing for the implicit bundle part, and the error was raised
C3_Witness ==
    /\ raised_by = "validation" /\ parts_at_start = <<>>
    /\ Called("exists:README.md")
    /\ error[1].msg = "Missing mandatory file: '/proj/README.md'."

\* C4: with no parts declared, the plan handed to the lifecycle is exactly
\* the one part "bundle" with plugin "bundle", prime [bundle.yaml, README.md]
\* and the project root as source.
C4_ImplicitPartsPlan ==
    (~IsNone(lifecycle) /\ parts_at_start = <<>>) =>
        /\ DOMAIN lifecycle[1].parts = {"bundle"}
        /\ DOMAIN lifecycle[1].parts["bundle"] = {"plugin", "prime", "source"}
        /\ lifecycle[1].parts["bundle"]["plugin"] = "bundle"
        /\ lifecycle[1].parts["bundle"]["prime"] = <<"bundle.yaml", "README.md">>
        /\ lifecycle[1].parts["bundle"]["source"] = "/proj"
        /\ lifecycle[1].parts = config_parts

\* the lifecycle was run for a project that declares no parts
C4_Witness ==
    /\ ~IsNone(lifecycle) /\ parts_at_start = <<>> /\ Called("lifecycle.run")
    /\ Join(ProjectDir, "README.md") \in DOMAIN files /\ Join(ProjectDir, "bundle.yaml") \in DOMAIN files

HasSpecialPart(p) == "bundle" \in DOMAIN p /\ "plugin" \in DOMAIN p["bundle"] /\ p["bundle"]["plugin"] = "bundle"

\* C5: a non-empty declared parts mapping without a part that is both named
\* "bundle" and uses plugin "bundle" is handed to the lifecycle unchanged.
C5_CustomPartsUnchanged ==
    (~IsNone(lifecycle) /\ parts_at_start # <<>> /\ ~HasSpecialPart(parts_at_start)) =>
        /\ lifecycle[1].parts = parts_at_start
        /\ config_parts = parts_at_start
        /\ config.parts = parts_at_start
        /\ ~Called("exists:bundle.yaml") /\ ~Called("exists:README.md")

\* the lifecycle was run for a part named "bundle" that uses another plugin
C5_Witness ==
    /\ ~IsNone(lifecycle) /\ Called("lifecycle.run")
    /\ parts_at_start = ("bundle" :> [plugin |-> "nil"])

ShellAfterLifecycleFailure ==
    /\ pc = "done"
    /\ Count(trace, "launch_shell") = 1
    /\ Len(trace) >= 2 /\ trace[Len(trace)] = "launch_shell" /\ trace[Len(trace) - 1] = "lifecycle.run"
    /\ error[1].msg = "Parts processing error"
    /\ IsNone(pack_result) /\ IsNone(result)

\* C6 as stated: for a lifecycle failure of any exception kind, with debug
\* mode the shell is launched exactly once, after the failure, and the same
\* error propagates.
C6_AnyKindLaunchesShell ==
    (raised_by = "lifecycle_run" /\ parsed_args.debug) => ShellAfterLifecycleFailure

\* C6, amended: for a lifecycle failure that is a RuntimeError or a
\* CommandError, with debug mode the shell is launched exactly once, after
\* the failure and before the error leaves _pack_bundle, and the same error
\* propagates.
C6_CaughtKindsLaunchShell ==
    (raised_by = "lifecycle_run" /\ parsed_args.debug /\ error[1].kind \in {"RuntimeError", "CommandError"}) => ShellAfterLifecycleFailure

\* the lifecycle failed with a CommandError in debug mode
C6_Witness ==
    /\ raised_by = "lifecycle_run" /\ parsed_args.debug /\ error[1].kind = "CommandError"
    /\ Called("launch_shell")

\* C7: in every run the ignore pattern given to the lifecycle is the single
\* name <bundleName>.zip, no archive is among the lifecycle's sources, and the
\* archive the run writes is the file of that name at the project root.
C7_ArchiveIgnored ==
    ~IsNone(lifecycle) =>
        /\ lifecycle[1].ignore_local_sources = <<"mybundle.zip">>
        /\ files_at_start[Join(ProjectDir, "bundle.yaml")].data["name"] = "mybundle"
        /\ \A r \in lifecycle[1].sources : files_at_start[ProjectDir \o r].kind # "zip"
        /\ ~IsNone(zipname) => /\ zipname[1] = Join(ProjectDir, lifecycle[1].ignore_local_sources[1])
                               /\ Called("build_zip")
        /\ \A f \in DOMAIN files : (files[f].kind = "zip" /\ (f \notin DOMAIN files_at_start \/ files[f] # files_at_start[f])) => zipname = Some(f)

\* a second run, over the archive of the first, ran the lifecycle and wrote its archive
C7_Witness ==
    /\ runs = 2 /\ Called("lifecycle.run") /\ pc = "done" /\ IsNone(error)
    /\ Join(ProjectDir, "mybundle.zip") \in DOMAIN files_at_start
    /\ files_at_start[Join(ProjectDir, "mybundle.zip")].closed
    /\ zipname = Some(Join(ProjectDir, "mybundle.zip"))

ShellOnly ==
    /\ trace = <<"launch_shell">>
    /\ files = files_at_start
    /\ config.parts = parts_at_start
    /\ IsNone(lifecycle) /\ IsNone(zipname)
    /\ IsNone(error)
    /\ pack_result = Some(PyList(<<>>))

\* C8 as stated: every invocation given --shell only launches the shell, once,
\* and its result is the empty list.
C8_ShellAlwaysShortCircuits ==
    (runs > 0 /\ parsed_args.shell /\ pc = "done") => ShellOnly

\* C8, amended: every invocation given --shell that reaches _pack_bundle
\* (declared type "bundle", configuration provided, neither an entrypoint nor
\* a requirement list given) only launches the shell, once: bundle.yaml is not
\* read, the mandatory files are not checked, the lifecycle is not run, nothing
\* is written, and _pack_bundle returns the empty list.
C8_BundleShellShortCircuits ==
    (runs > 0 /\ parsed_args.shell /\ path = "bundle" /\ ~CharmOnlyGiven) =>
        /\ pc \in {"pack_bundle", "done"}
        /\ pc = "pack_bundle" => trace = <<>>
        /\ pc = "done" => ShellOnly

\* a bundle invocation with --shell, --debug and --shell-after returned
C8_Witness ==
    /\ runs > 0 /\ path = "bundle" /\ pc = "done"
    /\ parsed_args.shell /\ parsed_args.debug /\ parsed_args.shell_after
    /\ trace = <<"launch_shell">>

\* C9 as stated: an invocation that completes without error returns the list
\* of the produced artifact paths: the archive path on the bundle path, the
\* builder's paths on the charm path, the empty list only with --shell.
C9_RunReturnsArtifacts ==
    (runs > 0 /\ pc = "done" /\ IsNone(error)) =>
        /\ ~IsNone(result) /\ ~result[1].none
        /\ path = "bundle" => result[1].list = (IF parsed_args.shell THEN <<>> ELSE <<Join(ProjectDir, "mybundle.zip")>>)
        /\ path = "charm" => result[1].list = charms[1]
        /\ result[1].list = <<>> => parsed_args.shell

\* _pack_bundle was called in the current invocation
InPackBundle == runs > 0 /\ path = "bundle" /\ raised_by # "usage"
BundleYamlPath == Join(ProjectDir, "bundle.yaml")
\* bundle.yaml, as the invocation found it, is a mapping
BundleYamlIsMapping == BundleYamlPath \in DOMAIN files_at_start /\ files_at_start[BundleYamlPath].kind = "yaml" /\ files_at_start[BundleYamlPath].valid
\* bundle.yaml, as the invocation found it, is a mapping with a non-empty name
BundleYamlHasName == BundleYamlIsMapping /\ "name" \in DOMAIN files_at_start[BundleYamlPath].data /\ files_at_start[BundleYamlPath].data["name"] # ""

\* C11: in a bundle invocation without --shell and without charm-only flags,
\* an absent bundle.yaml or one that is no mapping gives the
\* missing-or-invalid-bundle-file error naming the path; otherwise an absent
\* or empty name gives the missing-name error; both come before the
\* mandatory-file check, so that a missing bundle.yaml is never reported as a
\* missing mandatory file.
C11_BundleFileErrors ==
    /\ (InPackBundle /\ ~parsed_args.shell /\ ~CharmOnlyGiven /\ pc \notin {"pack_bundle", "load_bundle"}) =>
        /\ ~BundleYamlIsMapping =>
            /\ pc = "done" /\ raised_by = "validation" /\ trace = <<"load_yaml">>
            /\ error = <<[kind |-> "CommandError", msg |-> "Missing or invalid main bundle file: '/proj/bundle.yaml'."]>>
        /\ (BundleYamlIsMapping /\ ~BundleYamlHasName) =>
            /\ pc = "done" /\ raised_by = "validation" /\ trace = <<"load_yaml">>
            /\ error = <<[kind |-> "CommandError", msg |-> "Invalid bundle config; missing a 'name' field indicating the bundle's name in file '/proj/bundle.yaml'."]>>
        /\ BundleYamlHasName => trace # <<>> /\ trace[1] = "load_yaml" /\ bundle_name = <<files_at_start[BundleYamlPath].data["name"]>>
    /\ (Called("exists:bundle.yaml") \/ Called("exists:README.md")) => (trace[1] = "load_yaml" /\ BundleYamlHasName)
    /\ ~IsNone(error) => error[1].msg # "Missing mandatory file: '/proj/bundle.yaml'."

\* bundle.yaml and README.md were both missing for the implicit bundle part:
\* the error is the one about the bundle file
C11_Witness ==
    /\ InPackBundle /\ pc = "done" /\ parts_at_start = <<>>
    /\ DOMAIN files_at_start = {}
    /\ raised_by = "validation" /\ trace = <<"load_yaml">>

\* a bundle.yaml that is a list gave the bundle-file error
C11_WitnessList ==
    /\ InPackBundle /\ pc = "done"
    /\ BundleYamlPath \in DOMAIN files_at_start /\ files_at_start[BundleYamlPath].kind = "yaml_list"
    /\ raised_by = "validation"

PlanIsDeclaredPlusMandatory(sourceKept) ==
    LET declared == parts_at_start
        plan == lifecycle[1].parts
    IN /\ DOMAIN plan = DOMAIN declared
       /\ \A n \in DOMAIN declared \ {"bundle"} : plan[n] = declared[n]
       /\ DOMAIN plan["bundle"] = DOMAIN declared["bundle"] \cup {"prime", "source"}
       /\ \A k \in DOMAIN declared["bundle"] \ {"prime", "source"} : plan["bundle"][k] = declared["bundle"][k]
       /\ plan["bundle"]["prime"] = (IF "prime" \in DOMAIN declared["bundle"] THEN declared["bundle"]["prime"] ELSE <<>>) \o <<"bundle.yaml", "README.md">>
       /\ plan["bundle"]["source"] = (IF sourceKept THEN declared["bundle"]["source"] ELSE "/proj")

\* C12 as stated: with a declared special part, the plan differs from the
\* declared mapping only in that part: prime is the declared prime list
\* followed by the two mandatory files, source is the declared source when one
\* was declared and the project root otherwise.
C12_SpecialPartDefaults ==
    (~IsNone(lifecycle) /\ parts_at_start # <<>> /\ HasSpecialPart(parts_at_start)) =>
        PlanIsDeclaredPlusMandatory("source" \in DOMAIN parts_at_start["bundle"])

\* C12, amended: the source is the declared source when a non-empty one was
\* declared, and the project root when none or an empty one was declared.
C12_SpecialPartDefaultsNonEmptySource ==
    (~IsNone(lifecycle) /\ parts_at_start # <<>> /\ HasSpecialPart(parts_at_start)) =>
        PlanIsDeclaredPlusMandatory("source" \in DOMAIN parts_at_start["bundle"] /\ parts_at_start["bundle"]["source"] # "")

\* the lifecycle got a special part that declared a prime list and a source
C12_Witness ==
    /\ ~IsNone(lifecycle) /\ Called("lifecycle.run")
    /\ parts_at_start = ("bundle" :> [plugin |-> "bundle", prime |-> <<"extra.txt">>, source |-> "src"])
    /\ lifecycle[1].parts["bundle"]["prime"] = <<"extra.txt", "bundle.yaml", "README.md">>

\* the plan of the invocation holds the special part: declared, or implicit
PlanHasSpecialPart == parts_at_start = <<>> \/ HasSpecialPart(parts_at_start)
MandatoryFileMissing == Join(ProjectDir, "bundle.yaml") \notin DOMAIN files_at_start \/ Join(ProjectDir, "README.md") \notin DOMAIN files_at_start
MissingMandatoryFileError == ~IsNone(error) /\ error[1].kind = "CommandError" /\ error[1].msg \in {"Missing mandatory file: '/proj/bundle.yaml'.", "Missing mandatory file: '/proj/README.md'."}

MandatoryFileRule ==
    /\ MissingMandatoryFileError <=> (PlanHasSpecialPart /\ MandatoryFileMissing)
    /\ MissingMandatoryFileError =>
        /\ raised_by = "validation"
        /\ error[1].msg = (IF Join(ProjectDir, "bundle.yaml") \notin DOMAIN files_at_start THEN "Missing mandatory file: '/proj/bundle.yaml'." ELSE "Missing mandatory file: '/proj/README.md'.")
    /\ (~PlanHasSpecialPart /\ MandatoryFileMissing) => (IsNone(error) \/ raised_by \notin {"validation"}) /\ Called("PartsLifecycle")

\* C13 as stated: given a valid bundle.yaml with a non-empty name, a call of
\* _pack_bundle fails with the missing-mandatory-file error iff the plan holds
\* the special part and one of bundle.yaml, README.md is missing; the error
\* names the first missing one; without the special part a missing README.md
\* raises no error and the lifecycle is run.
C13_MandatoryFileCheck ==
    (InPackBundle /\ pc = "done" /\ BundleYamlHasName) => MandatoryFileRule

\* C13, amended: the same, for a call of _pack_bundle without --shell.
C13_MandatoryFileCheckNoShell ==
    (InPackBundle /\ pc = "done" /\ BundleYamlHasName /\ ~parsed_args.shell) => MandatoryFileRule

\* README.md was missing for a declared special part, and the error names it
C13_Witness ==
    /\ InPackBundle /\ pc = "done" /\ BundleYamlHasName /\ ~parsed_args.shell
    /\ HasSpecialPart(parts_at_start)
    /\ Join(ProjectDir, "README.md") \notin DOMAIN files_at_start
    /\ error = <<[kind |-> "CommandError", msg |-> "Missing mandatory file: '/proj/README.md'."]>>

\* README.md was missing for a custom plan, and the lifecycle was run
C13_WitnessCustom ==
    /\ InPackBundle /\ pc = "done" /\ ~PlanHasSpecialPart
    /\ Join(ProjectDir, "README.md") \notin DOMAIN files_at_start
    /\ Called("lifecycle.run") /\ IsNone(error)

\* C14 as stated: a bundle pack run leaves self.config.parts, with the part
\* definitions and prime lists inside it, as it found it, so that every run
\* over the same configuration object builds the plan the first run built.
C14_ConfigPartsUnchanged ==
    runs > 0 => config.parts = parts_at_start

\* C15: when the lifecycle run fails, with or without debug mode, the rest of
\* the invocation is dropped: no manifest, no archive, no success message, no
\* --shell-after shell, no result; the invocation ends with the lifecycle's error.
C15_LifecycleFailureAborts ==
    raised_by = "lifecycle_run" =>
        /\ pc = "done"
        /\ ~IsNone(error) /\ error[1].msg = "Parts processing error" /\ error[1].kind \in {"RuntimeError", "CommandError", "KeyboardInterrupt"}
        /\ ~Called("create_manifest") /\ ~Called("build_zip") /\ ~Called("emit.message:Created")
        /\ files = files_at_start /\ IsNone(zipname)
        /\ IsNone(pack_result) /\ IsNone(result)
        /\ Count(trace, "launch_shell") <= 1
        /\ Called("launch_shell") => parsed_args.debug
        /\ trace[Len(trace)] = "lifecycle.run" \/ (trace[Len(trace)] = "launch_shell" /\ trace[Len(trace) - 1] = "lifecycle.run")

\* the lifecycle failed in an invocation given --shell-after and not --debug
C15_Witness ==
    /\ raised_by = "lifecycle_run" /\ parsed_args.shell_after /\ ~parsed_args.debug
    /\ error[1].kind = "RuntimeError" /\ pc = "done"

ManifestPath == Join(lifecycle[1].prime_dir, "manifest.yaml")
PackedWithoutError == InPackBundle /\ pc \in {"finish", "done"} /\ IsNone(error) /\ Called("build_zip")

\* C16: the manifest is written after the lifecycle run succeeded and before
\* the archive step starts; the archive is never built from a prime directory
\* without the manifest, so the archive of a successful run holds the manifest
\* entry and the primed files.
C16_ManifestBeforeArchive ==
    /\ Called("create_manifest") =>
        /\ Count(trace, "create_manifest") = 1
        /\ 0 < FirstIndex(trace, "lifecycle.run") /\ FirstIndex(trace, "lifecycle.run") < FirstIndex(trace, "create_manifest")
        /\ raised_by # "lifecycle_run"
    /\ (pc = "build_zip" \/ Called("build_zip")) =>
        /\ 0 < FirstIndex(trace, "create_manifest")
        /\ Called("build_zip") => FirstIndex(trace, "create_manifest") < FirstIndex(trace, "build_zip")
        /\ raised_by # "manifest"
        /\ ManifestPath \in DOMAIN files /\ files[ManifestPath].kind = "manifest"
    /\ PackedWithoutError =>
        /\ files[zipname[1]].kind = "zip" /\ files[zipname[1]].closed
        /\ "manifest.yaml" \in Range(files[zipname[1]].entries)
        /\ Range(files[zipname[1]].entries) = {StrPath(t) : t \in TreeOf(files, lifecycle[1].prime_dir)}

\* a successful run whose archive holds bundle.yaml, README.md and the manifest
C16_Witness ==
    /\ PackedWithoutError /\ pc = "done"
    /\ Range(files[zipname[1]].entries) = {"bundle.yaml", "README.md", "manifest.yaml"}

\* C17 as stated: the archive counts as produced (message, returned path) only
\* after its write completed; when the write fails part way the invocation
\* ends with that error, and the file left at <project>/<name>.zip, if any, is
\* not a well-formed archive written by this invocation.
C17_NoHalfWrittenArchive ==
    /\ (Called("emit.message:Created") \/ (InPackBundle /\ ~IsNone(pack_result) /\ pack_result[1].list # <<>>)) =>
        /\ IsNone(error) /\ Called("build_zip")
        /\ files[zipname[1]].closed
        /\ pack_result = <<>> \/ pack_result = <<[none |-> FALSE, list |-> <<zipname[1]>>]>>
    /\ raised_by = "archive" =>
        /\ pc = "done" /\ ~IsNone(error) /\ error[1].kind = "OSError"
        /\ ~Called("emit.message:Created") /\ IsNone(pack_result)
        /\ (zipname[1] \in DOMAIN files /\ files[zipname[1]].closed) => (zipname[1] \in DOMAIN files_at_start /\ files[zipname[1]] = files_at_start[zipname[1]])

C18_WitnessShellAfter ==
    /\ InPackBundle /\ pc = "done" /\ IsNone(error) /\ parsed_args.shell_after /\ parsed_args.debug
    /\ Called("build_zip") /\ Count(trace, "launch_shell") = 1
====
